---- MODULE Spec2Model ----
(***************************************************************************)
(* The Largest Contentful Paint audit                                      *)
(* (lighthouse-core/audits/metrics/largest-contentful-paint.js).           *)
(*                                                                         *)
(* The audit is an async static method.  One invocation runs in two steps: *)
(*   AuditCall    the synchronous part up to the await (lines 52-56): it   *)
(*                reads the default pass of the artifacts and issues the   *)
(*                request to the computed-metric engine;                   *)
(*   AuditResume  the continuation after the await (lines 56-67): it       *)
(*                either rethrows the engine's rejection or builds the     *)
(*                audit product.                                           *)
(* The engine (ComputedLCP.request), the scoring curve                     *)
(* (Audit.computeLogNormalScore) and the message formatter (str_) live     *)
(* outside this file and are modelled from their specification.            *)
(*                                                                         *)
(* Encoding of JavaScript values:                                          *)
(*   - a possibly-undefined value is a sequence of length 0 or 1;          *)
(*   - a number is a record [kind, v]: kind "num" carries the integer v,   *)
(*     kind "nan" is NaN, kind "none" is "no number here";                 *)
(*   - scores are fixed-point integers in units of 1/FixedOne.             *)
(***************************************************************************)
EXTENDS Integers, Sequences, FiniteSets, TLC

VARIABLES artifacts, context, pc, requests, awaiting, promises, cache,
          scoreArgs, result

vars == <<artifacts, context, pc, requests, awaiting, promises, cache,
          scoreArgs, result>>

----------------------------------------------------------------------------
(* Bounds of the model *)

MaxInvocations == 2

Invocations == 1..MaxInvocations

----------------------------------------------------------------------------
(* JavaScript values *)

Undefined == <<>>

Some(x) == <<x>>

Num(n) == [kind |-> "num", v |-> n]

NaN == [kind |-> "nan", v |-> 0]

NoNumber == [kind |-> "none", v |-> 0]

IsNum(x) == x.kind = "num"

----------------------------------------------------------------------------
(* Static members of the audit class *)

DEFAULT_PASS == "defaultPass"

meta ==
    [ id |-> "largest-contentful-paint",
      title |-> "largestContentfulPaintMetric",
      description |-> "description",
      scoreDisplayMode |-> "numeric",
      requiredArtifacts |-> <<"traces", "devtoolsLogs">> ]

DefaultScorePODR == 2000

DefaultScoreMedian == 4000

defaultOptions ==
    [ scorePODR |-> Some(DefaultScorePODR),
      scoreMedian |-> Some(DefaultScoreMedian) ]

----------------------------------------------------------------------------
(* The scoring curve, Audit.computeLogNormalScore: the complement of a     *)
(* log-normal cumulative distribution whose median is `median` and whose   *)
(* shape is fixed by `podr`.  Fixed-point arithmetic, unit 1/FixedOne.     *)

FixedOne == 10000

RECURSIVE Pow2Floor(_, _)
(* the largest power of two p * 2^k that is <= n (call with p = 1) *)
Pow2Floor(n, p) == IF 2 * p > n THEN p ELSE Pow2Floor(n, 2 * p)

RECURSIVE Log2Floor(_)
Log2Floor(n) == IF n < 2 THEN 0 ELSE 1 + Log2Floor(n \div 2)

FixMul(a, b) == (a * b) \div FixedOne

(* ln(n) for an integer n >= 1: n = p * m with p = 2^k and 1 <= m < 2,     *)
(* ln(n) = k ln 2 + 2 atanh((m-1)/(m+1)), atanh by its series up to u^9.   *)
Ln(n) ==
    LET p  == Pow2Floor(n, 1)
        k  == Log2Floor(n)
        u  == ((n - p) * FixedOne) \div (n + p)
        u2 == FixMul(u, u)
        u3 == FixMul(u, u2)
        u5 == FixMul(u3, u2)
        u7 == FixMul(u5, u2)
        u9 == FixMul(u7, u2)
    IN  (k * 693147) \div 100
          + 2 * (u + u3 \div 3 + u5 \div 5 + u7 \div 7 + u9 \div 9)

RECURSIVE ISqrtIter(_, _, _)
ISqrtIter(x, lo, hi) ==
    IF lo >= hi THEN lo
    ELSE LET mid == (lo + hi + 1) \div 2
         IN  IF mid * mid <= x THEN ISqrtIter(x, mid, hi)
                               ELSE ISqrtIter(x, lo, mid - 1)

(* the square root of a fixed-point number x >= 0 *)
FixSqrt(x) == ISqrtIter(x * FixedOne, 0, 46340)

(* erf at 0.0, 0.1, ..., 3.0 *)
ErfTable ==
    << 0, 1125, 2227, 3286, 4284, 5205, 6039, 6778, 7421, 7969,
       8427, 8802, 9103, 9340, 9523, 9661, 9763, 9838, 9891, 9928,
       9953, 9970, 9981, 9989, 9993, 9996, 9998, 9999, 9999, 10000, 10000 >>

(* erf of a fixed-point z >= 0, linear between the table's points *)
ErfAbs(z) ==
    LET step == FixedOne \div 10
        i    == z \div step
        r    == z % step
    IN  IF i + 2 > Len(ErfTable) THEN FixedOne
        ELSE ErfTable[i + 1]
               + ((ErfTable[i + 2] - ErfTable[i + 1]) * r) \div step

Erf(z) == IF z < 0 THEN 0 - ErfAbs(0 - z) ELSE ErfAbs(z)

(* the shape of the distribution from ln(podr / median); 0 where a square *)
(* root of a negative number leaves no real shape                          *)
Shape(logRatio) ==
    LET d     == logRatio - 3 * FixedOne
        inner == FixMul(d, d) - 8 * FixedOne
        outer == IF inner < 0 THEN 0
                 ELSE FixedOne - 3 * logRatio - FixSqrt(inner)
    IN  IF outer <= 0 THEN 0 ELSE FixSqrt(outer) \div 2

(* truncating division, as a quotient of reals would be rounded to zero *)
FixDiv(a, b) ==
    IF a < 0 THEN 0 - (((0 - a) * FixedOne) \div b) ELSE (a * FixedOne) \div b

Clamp01(s) == IF s < 0 THEN 0 ELSE IF s > FixedOne THEN FixedOne ELSE s

(* The percentile of a finite timing t >= 0.  A calibration that is no     *)
(* podr < median pair has no real shape: the square roots and the quotient *)
(* are NaN in floating point, and so is the result.                        *)
ComplementaryPercentile(t, podr, median) ==
    IF podr < 1 \/ median < 1 THEN NaN
    ELSE LET location == Ln(median)
             denom    == FixMul(14142, Shape(Ln(podr) - location))
         IN  IF denom = 0 THEN NaN
             ELSE IF t = 0 THEN Num(FixedOne)
             ELSE Num(Clamp01((FixedOne - Erf(FixDiv(Ln(t) - location, denom)))
                                \div 2))

(* computeLogNormalScore(measuredValue, diminishingReturnsValue,           *)
(* medianValue).  Arguments: a number, and two possibly-undefined          *)
(* integers.  Result: [throws, score]; a negative or non-finite measured   *)
(* value is an InvalidInput error; arithmetic on an undefined calibration  *)
(* value yields NaN.                                                       *)
computeLogNormalScore(measuredValue, diminishingReturnsValue, medianValue) ==
    IF ~IsNum(measuredValue) \/ measuredValue.v < 0
      THEN [throws |-> "InvalidInput", score |-> NoNumber]
    ELSE IF diminishingReturnsValue = Undefined \/ medianValue = Undefined
      THEN [throws |-> "", score |-> NaN]
    ELSE [throws |-> "",
          score |-> ComplementaryPercentile(measuredValue.v,
                                            diminishingReturnsValue[1],
                                            medianValue[1])]

(* str_(i18n.UIStrings.seconds, {timeInMs}): seconds with one decimal *)
str_seconds(timeInMs) ==
    IF IsNum(timeInMs) /\ timeInMs.v >= 0
      THEN [message |-> "seconds", tenths |-> (timeInMs.v + 50) \div 100]
      ELSE [message |-> "seconds", tenths |-> 0 - 1]

----------------------------------------------------------------------------
(* The inputs of an orchestrator run *)

Passes == {DEFAULT_PASS}

(* artifacts.traces and artifacts.devtoolsLogs map a pass name to its data; *)
(* a pass that was not gathered reads as undefined.                        *)
Bundle(t, d) ==
    [ traces |-> [p \in Passes |-> t], devtoolsLogs |-> [p \in Passes |-> d] ]

ArtifactBundles ==
    { Bundle(Some("trace"), Some("devtoolsLog")),
      Bundle(Undefined, Some("devtoolsLog")),
      Bundle(Some("trace"), Undefined) }

Options(podr, median) == [scorePODR |-> podr, scoreMedian |-> median]

(* context.settings and context.options; a field of the options that the   *)
(* context does not supply reads as undefined.                             *)
Contexts ==
    { [settings |-> "mobile",  options |-> Options(Some(1000), Some(3000))],
      [settings |-> "desktop", options |-> defaultOptions],
      [settings |-> "mobile",  options |-> Options(Undefined, Some(3000))],
      [settings |-> "mobile",  options |-> Options(Some(1000), Undefined)] }

(* what the metric engine may answer: a timing (a negative or NaN timing   *)
(* is a data-integrity fault of the engine) or a failure                   *)
EngineTimings == {Num(0 - 1), Num(1040), Num(3000), NaN}

EngineErrors == {"NO_LCP", "NO_NAVSTART"}

----------------------------------------------------------------------------
(* Results of an invocation *)

NoDisplay == [message |-> "", tenths |-> 0]

NoResult ==
    [ kind |-> "none", error |-> "", score |-> NoNumber,
      numericValue |-> NoNumber, displayValue |-> NoDisplay ]

Failure(e) ==
    [ kind |-> "error", error |-> e, score |-> NoNumber,
      numericValue |-> NoNumber, displayValue |-> NoDisplay ]

Product(score, numericValue, displayValue) ==
    [ kind |-> "product", error |-> "", score |-> score,
      numericValue |-> numericValue, displayValue |-> displayValue ]

----------------------------------------------------------------------------
(* The computed-metric engine: ComputedLCP.request memoizes the promise of *)
(* a computation under the identity of its input.                          *)

Pending(key) ==
    [key |-> key, state |-> "pending", timing |-> NoNumber, error |-> ""]

(* request(data, context) on behalf of invocation i: the promise already   *)
(* cached under this identity, or else a new computation                   *)
request(i, data, ctx) ==
    LET key == [data |-> data, context |-> ctx]
    IN  IF key \in DOMAIN cache
          THEN /\ awaiting' = [awaiting EXCEPT ![i] = cache[key]]
               /\ UNCHANGED <<promises, cache>>
          ELSE /\ promises' = Append(promises, Pending(key))
               /\ cache' = cache @@ (key :> (Len(promises) + 1))
               /\ awaiting' = [awaiting EXCEPT ![i] = Len(promises) + 1]

EngineResolve(p, t) ==
    /\ promises[p].state = "pending"
    /\ promises' = [promises EXCEPT ![p].state = "resolved", ![p].timing = t]
    /\ UNCHANGED <<artifacts, context, pc, requests, awaiting, cache,
                   scoreArgs, result>>

EngineReject(p, e) ==
    /\ promises[p].state = "pending"
    /\ promises' = [promises EXCEPT ![p].state = "rejected", ![p].error = e]
    /\ UNCHANGED <<artifacts, context, pc, requests, awaiting, cache,
                   scoreArgs, result>>

----------------------------------------------------------------------------
(* LargestContentfulPaint.audit(artifacts, context) *)

Init ==
    /\ artifacts \in ArtifactBundles
    /\ context \in [Invocations -> Contexts]
    /\ pc = [i \in Invocations |-> "idle"]
    /\ requests = [i \in Invocations |-> <<>>]
    /\ awaiting = [i \in Invocations |-> 0]
    /\ promises = <<>>
    /\ cache = <<>>
    /\ scoreArgs = [i \in Invocations |-> Undefined]
    /\ result = [i \in Invocations |-> NoResult]

(* lines 53-55: the input of the metric computation *)
metricComputationData(arts, ctx) ==
    [ trace |-> arts.traces[DEFAULT_PASS],
      devtoolsLog |-> arts.devtoolsLogs[DEFAULT_PASS],
      settings |-> ctx.settings ]

(* A variant that calls the computation directly instead of request, so   *)
(* that the engine's cache is bypassed                                     *)
AuditCall_Direct(i) ==
    /\ pc[i] = "idle"
    /\ IF i = 1 THEN TRUE ELSE pc[i - 1] # "idle"
    /\ promises' = Append(promises,
                          Pending([data |-> metricComputationData(artifacts, context[i]),
                                   context |-> context[i]]))
    /\ awaiting' = [awaiting EXCEPT ![i] = Len(promises) + 1]
    /\ requests' = [requests EXCEPT
                      ![i] = Append(@, [data |-> metricComputationData(artifacts, context[i]),
                                        context |-> context[i]])]
    /\ pc' = [pc EXCEPT ![i] = "awaiting"]
    /\ UNCHANGED <<artifacts, context, cache, scoreArgs, result>>

(* A variant that checks the default pass itself and throws                *)
(* MissingArtifact before any request                                      *)
AuditCall_Defensive(i) ==
    /\ pc[i] = "idle"
    /\ IF i = 1 THEN TRUE ELSE pc[i - 1] # "idle"
    /\ IF \/ artifacts.traces[DEFAULT_PASS] = Undefined
          \/ artifacts.devtoolsLogs[DEFAULT_PASS] = Undefined
         THEN /\ pc' = [pc EXCEPT ![i] = "failed"]
              /\ result' = [result EXCEPT ![i] = Failure("MissingArtifact")]
              /\ UNCHANGED <<requests, awaiting, promises, cache>>
         ELSE /\ request(i, metricComputationData(artifacts, context[i]), context[i])
              /\ requests' = [requests EXCEPT
                                ![i] = Append(@, [data |-> metricComputationData(artifacts, context[i]),
                                                  context |-> context[i]])]
              /\ pc' = [pc EXCEPT ![i] = "awaiting"]
              /\ UNCHANGED result
    /\ UNCHANGED <<artifacts, context, scoreArgs>>

(* A variant that writes the defaults into the options it was given        *)
AuditCall_FillDefaults(i) ==
    /\ pc[i] = "idle"
    /\ IF i = 1 THEN TRUE ELSE pc[i - 1] # "idle"
    /\ request(i, metricComputationData(artifacts, context[i]), context[i])
    /\ requests' = [requests EXCEPT
                      ![i] = Append(@, [data |-> metricComputationData(artifacts, context[i]),
                                        context |-> context[i]])]
    /\ pc' = [pc EXCEPT ![i] = "awaiting"]
    /\ context' = [context EXCEPT
                     ![i].options.scorePODR =
                        IF @ = Undefined THEN defaultOptions.scorePODR ELSE @,
                     ![i].options.scoreMedian =
                        IF @ = Undefined THEN defaultOptions.scoreMedian ELSE @]
    /\ UNCHANGED <<artifacts, scoreArgs, result>>

(* lines 52-56, up to the await.  Invocations are numbered in the order in *)
(* which the orchestrator calls them.                                      *)
AuditCall(i) ==
    /\ pc[i] = "idle"
    /\ IF i = 1 THEN TRUE ELSE pc[i - 1] # "idle"
    /\ request(i, metricComputationData(artifacts, context[i]), context[i])
    /\ requests' = [requests EXCEPT
                      ![i] = Append(@, [data |-> metricComputationData(artifacts, context[i]),
                                        context |-> context[i]])]
    /\ pc' = [pc EXCEPT ![i] = "awaiting"]
    /\ UNCHANGED <<artifacts, context, scoreArgs, result>>

(* A variant that falls back to defaultOptions for an omitted field *)
ScoreArguments_Defaulted(metricResult, ctx) ==
    [ timing |-> metricResult.timing,
      scorePODR |-> IF ctx.options.scorePODR = Undefined
                      THEN defaultOptions.scorePODR ELSE ctx.options.scorePODR,
      scoreMedian |-> IF ctx.options.scoreMedian = Undefined
                        THEN defaultOptions.scoreMedian ELSE ctx.options.scoreMedian ]

(* lines 60-62: the arguments handed to the score computation *)
ScoreArguments(metricResult, ctx) ==
    [ timing |-> metricResult.timing,
      scorePODR |-> ctx.options.scorePODR,
      scoreMedian |-> ctx.options.scoreMedian ]

(* A variant that hands the two calibration values over in the wrong order *)
AuditScore_Swapped(metricResult, ctx) ==
    computeLogNormalScore(metricResult.timing, ctx.options.scoreMedian,
                          ctx.options.scorePODR)

(* lines 59-63 *)
AuditScore(metricResult, ctx) ==
    LET a == ScoreArguments(metricResult, ctx)
    IN  computeLogNormalScore(a.timing, a.scorePODR, a.scoreMedian)

(* A variant that guards the score computation and reports a null score   *)
(* instead of letting its exception through                                *)
AuditProduct_NullScore(metricResult, ctx) ==
    LET a == ScoreArguments(metricResult, ctx)
        s == computeLogNormalScore(a.timing, a.scorePODR, a.scoreMedian)
    IN  Product(s.score, metricResult.timing, str_seconds(metricResult.timing))

(* A variant that reports the timing rounded as it is displayed *)
AuditProduct_Rounded(metricResult, ctx) ==
    LET a == ScoreArguments(metricResult, ctx)
        s == computeLogNormalScore(a.timing, a.scorePODR, a.scoreMedian)
    IN  IF s.throws # ""
          THEN Failure(s.throws)
          ELSE Product(s.score,
                       Num(100 * str_seconds(metricResult.timing).tenths),
                       str_seconds(metricResult.timing))

RECURSIVE SumNumericValues(_)
SumNumericValues(I) ==
    IF I = {} THEN 0
    ELSE LET i == CHOOSE x \in I : TRUE
         IN  (IF result[i].kind = "product" THEN result[i].numericValue.v ELSE 0)
               + SumNumericValues(I \ {i})

(* A variant that keeps a running total in a static field of the class and *)
(* reports it as the numeric value                                         *)
AuditProduct_Accumulating(metricResult, ctx) ==
    LET a == ScoreArguments(metricResult, ctx)
        s == computeLogNormalScore(a.timing, a.scorePODR, a.scoreMedian)
    IN  IF s.throws # ""
          THEN Failure(s.throws)
          ELSE Product(s.score,
                       Num(metricResult.timing.v + SumNumericValues(Invocations)),
                       str_seconds(metricResult.timing))

(* lines 58-66: the object literal; its fields are evaluated in order, so  *)
(* an exception of the score computation leaves no object behind           *)
AuditProduct(metricResult, ctx) ==
    LET s == AuditScore(metricResult, ctx)
    IN  IF s.throws # ""
          THEN Failure(s.throws)
          ELSE Product(s.score, metricResult.timing,
                       str_seconds(metricResult.timing))

(* A variant that catches the engine's rejection and returns a product    *)
(* without a score                                                         *)
AuditResume_Swallow(i) ==
    /\ pc[i] = "awaiting"
    /\ promises[awaiting[i]].state # "pending"
    /\ LET p == promises[awaiting[i]]
           metricResult == [timing |-> p.timing]
           out == AuditProduct(metricResult, context[i])
       IN  IF p.state = "rejected"
             THEN /\ result' = [result EXCEPT
                                  ![i] = Product(NoNumber, NoNumber, NoDisplay)]
                  /\ pc' = [pc EXCEPT ![i] = "done"]
                  /\ UNCHANGED scoreArgs
             ELSE /\ result' = [result EXCEPT ![i] = out]
                  /\ pc' = [pc EXCEPT ![i] =
                              IF out.kind = "product" THEN "done" ELSE "failed"]
                  /\ scoreArgs' = [scoreArgs EXCEPT
                                     ![i] = Some(ScoreArguments(metricResult, context[i]))]
    /\ UNCHANGED <<artifacts, context, requests, awaiting, promises, cache>>

(* A variant without the await: the promise itself is read as the metric   *)
(* result, whose timing is then undefined while the request is pending     *)
AuditResume_NoAwait(i) ==
    /\ pc[i] = "awaiting"
    /\ LET p == promises[awaiting[i]]
           metricResult == [timing |-> p.timing]
           out == AuditProduct(metricResult, context[i])
       IN  /\ result' = [result EXCEPT ![i] = out]
           /\ pc' = [pc EXCEPT ![i] =
                       IF out.kind = "product" THEN "done" ELSE "failed"]
           /\ scoreArgs' = [scoreArgs EXCEPT
                              ![i] = Some(ScoreArguments(metricResult, context[i]))]
    /\ UNCHANGED <<artifacts, context, requests, awaiting, promises, cache>>

(* lines 56-67, from the await on: the rejection of the awaited promise is *)
(* rethrown, its value is turned into the product                          *)
AuditResume(i) ==
    /\ pc[i] = "awaiting"
    /\ promises[awaiting[i]].state # "pending"
    /\ LET p == promises[awaiting[i]]
           metricResult == [timing |-> p.timing]
           out == AuditProduct(metricResult, context[i])
       IN  IF p.state = "rejected"
             THEN /\ result' = [result EXCEPT ![i] = Failure(p.error)]
                  /\ pc' = [pc EXCEPT ![i] = "failed"]
                  /\ UNCHANGED scoreArgs
             ELSE /\ result' = [result EXCEPT ![i] = out]
                  /\ pc' = [pc EXCEPT ![i] =
                              IF out.kind = "product" THEN "done" ELSE "failed"]
                  /\ scoreArgs' = [scoreArgs EXCEPT
                                     ![i] = Some(ScoreArguments(metricResult, context[i]))]
    /\ UNCHANGED <<artifacts, context, requests, awaiting, promises, cache>>

Next ==
    \/ \E i \in Invocations : AuditCall(i)
    \/ \E i \in Invocations : AuditResume(i)
    \/ \E p \in DOMAIN promises, t \in EngineTimings : EngineResolve(p, t)
    \/ \E p \in DOMAIN promises, e \in EngineErrors : EngineReject(p, e)

Spec == Init /\ [][Next]_vars

----------------------------------------------------------------------------
(* Properties *)

Called(i) == pc[i] # "idle"

Finished(i) == pc[i] \in {"done", "failed"}

(* the promise invocation i awaits (i has been called) *)
Awaited(i) == promises[awaiting[i]]

Returned(i) == result[i].kind = "product"

ArtifactMissing ==
    \/ artifacts.traces[DEFAULT_PASS] = Undefined
    \/ artifacts.devtoolsLogs[DEFAULT_PASS] = Undefined

Supplied(options) ==
    options.scorePODR # Undefined /\ options.scoreMedian # Undefined

(* C1: when the engine's request is rejected, the invocation fails with    *)
(* the engine's own error, returns no product at any time, and never       *)
(* reaches the score computation.                                          *)
C1_EngineFailureSurfacesUnchanged ==
    \A i \in Invocations :
        (Called(i) /\ Awaited(i).state = "rejected") =>
            /\ ~Returned(i)
            /\ scoreArgs[i] = Undefined
            /\ Finished(i) =>
                  (pc[i] = "failed" /\ result[i] = Failure(Awaited(i).error))

C1_Witness ==
    \E i \in Invocations :
        /\ pc[i] = "failed"
        /\ Awaited(i).state = "rejected"
        /\ result[i].error = "NO_NAVSTART"

C3_InvalidTimingFails ==
    \A i \in Invocations :
        /\ (Finished(i) /\ Awaited(i).state = "resolved"
              /\ (~IsNum(Awaited(i).timing) \/ Awaited(i).timing.v < 0)) =>
                  (pc[i] = "failed" /\ result[i] = Failure("InvalidInput"))
        /\ Returned(i) =>
              (IsNum(result[i].numericValue) /\ result[i].numericValue.v >= 0)

C3_Witness ==
    \E i, j \in Invocations :
        /\ pc[i] = "failed" /\ Awaited(i).timing = Num(0 - 1)
        /\ result[i].error = "InvalidInput"
        /\ pc[j] = "failed" /\ Awaited(j).timing = NaN
        /\ result[j].error = "InvalidInput"

(* C4: a computation is started at most once per identity; invocations     *)
(* that request the same identity wait on the same promise and observe     *)
(* the same timing.                                                        *)
C4_SingleFlight ==
    /\ \A p, q \in DOMAIN promises :
          promises[p].key = promises[q].key => p = q
    /\ \A i, j \in Invocations :
          (Called(i) /\ Called(j) /\ requests[i] = requests[j]) =>
              /\ awaiting[i] = awaiting[j]
              /\ (scoreArgs[i] # Undefined /\ scoreArgs[j] # Undefined) =>
                    scoreArgs[i][1].timing = scoreArgs[j][1].timing

C4_Witness ==
    \E i, j \in Invocations :
        /\ i # j
        /\ requests[i] = requests[j]
        /\ pc[i] = "done"
        /\ pc[j] = "awaiting"
        /\ awaiting[i] = awaiting[j]
        /\ Len(promises) = 1

(* C5: an invocation issues exactly one request, never a second, and it    *)
(* completes only once the promise of that request is settled.             *)
C5_OneRequestThenSuspended ==
    \A i \in Invocations :
        /\ Len(requests[i]) = (IF Called(i) THEN 1 ELSE 0)
        /\ Finished(i) => Awaited(i).state # "pending"
        /\ (Called(i) /\ Awaited(i).state = "pending") =>
              (pc[i] = "awaiting" /\ result[i] = NoResult)

C5_Witness ==
    \E i, j \in Invocations :
        /\ pc[i] = "done" /\ Len(requests[i]) = 1
        /\ pc[j] = "failed" /\ Len(requests[j]) = 1
        /\ Awaited(j).state = "rejected"

(* C6, as claimed: when the default pass's trace or devtoolsLog is absent, *)
(* no request carrying the absent value is sent, no product is returned    *)
(* and the invocation fails with MissingArtifact.                          *)
C6_MissingArtifactError ==
    ArtifactMissing =>
        \A i \in Invocations :
            /\ requests[i] = <<>>
            /\ ~Returned(i)
            /\ Finished(i) => result[i] = Failure("MissingArtifact")

(* C6, amended: audit makes no check of its own.  When the default pass's  *)
(* trace or devtoolsLog is absent, the request is still sent, carrying the *)
(* absent value, and the invocation ends as the engine's answer decides:   *)
(* with the engine's error, or with the product of the engine's timing;    *)
(* it never fails with MissingArtifact.                                    *)
C6_AbsentArtifactForwarded ==
    ArtifactMissing =>
        \A i \in Invocations :
            /\ Called(i) =>
                  /\ Len(requests[i]) = 1
                  /\ requests[i][1].data.trace = artifacts.traces[DEFAULT_PASS]
                  /\ requests[i][1].data.devtoolsLog =
                        artifacts.devtoolsLogs[DEFAULT_PASS]
            /\ result[i].error # "MissingArtifact"
            /\ Finished(i) =>
                  result[i] =
                      (IF Awaited(i).state = "rejected"
                         THEN Failure(Awaited(i).error)
                         ELSE AuditProduct([timing |-> Awaited(i).timing],
                                           context[i]))

C6_Witness ==
    \E i, j \in Invocations :
        /\ artifacts.traces[DEFAULT_PASS] = Undefined
        /\ pc[i] = "failed"
        /\ requests[i][1].data.trace = Undefined
        /\ result[i].error = "NO_LCP"
        /\ pc[j] = "done"

(* the curve as audit computes it, over a grid of timings *)
CurveTimings == {0, 1, 60000} \cup {250 * k : k \in 1..40}

CurveCalibrations ==
    {Options(Some(1000), Some(3000)), defaultOptions,
     Options(Some(2500), Some(4000))}

ScoreCurve ==
    [c \in CurveCalibrations |->
       [t \in CurveTimings |->
          AuditScore([timing |-> Num(t)],
                     [settings |-> "mobile", options |-> c]).score]]

C8_ProductFromAwaitedTiming ==
    \A i \in Invocations :
        Returned(i) =>
            /\ pc[i] = "done"
            /\ Awaited(i).state = "resolved"
            /\ result[i].numericValue = Awaited(i).timing
            /\ result[i].score =
                  computeLogNormalScore(Awaited(i).timing,
                                        context[i].options.scorePODR,
                                        context[i].options.scoreMedian).score
            /\ result[i].displayValue = str_seconds(Awaited(i).timing)

C8_Witness ==
    \E i \in Invocations :
        /\ pc[i] = "done"
        /\ Awaited(i).timing = Num(1040)
        /\ result[i].numericValue = Num(1040)
        /\ result[i].displayValue = [message |-> "seconds", tenths |-> 10]

(* C9: no step changes the artifacts or any context. *)
C9_InputsReadOnly ==
    [][artifacts' = artifacts /\ context' = context]_vars

C9_Witness ==
    \E i, j \in Invocations :
        /\ pc[i] = "done"
        /\ pc[j] = "failed"
        /\ context[i].options.scoreMedian = Undefined

====
